---- MODULE Spec2Model ----
(***************************************************************************)
(* Model of django_airavata/apps/auth/views.py: the account-creation and   *)
(* email-verification handlers (create_account, verify_email,              *)
(* resend_email_link) and the login handlers (redirect_login,              *)
(* handle_login, callback, callback_error).                                *)
(*                                                                         *)
(* One action is one HTTP request handled from start to response.  The     *)
(* collaborators (IAM admin client, EmailVerification / EmailTemplate      *)
(* tables, mail sender, authentication backend) can fail: which            *)
(* collaborator call raises in a request is an input of the action.        *)
(* A handler is an operator from the state and the request's input to an   *)
(* outcome: the state it leaves, the collaborator calls it made in order   *)
(* and its response.  The action of a request applies the handler's        *)
(* outcome and leaves, in the variable last, the handler and the response. *)
(***************************************************************************)
EXTENDS Integers, Sequences, FiniteSets, Bags, TLC

VARIABLES
    records,    \* the EmailVerification table, rows in insertion order
    iam,        \* the accounts held by the IAM service, by username
    outbox,     \* the bag of every EmailMessage sent so far
    session,    \* the browser session (logged-in user, OAuth2 state, redirect URI)
    last,       \* the last request answered: its handler and its response
    requests    \* the verify_email requests in flight, each at its own line

vars == <<records, iam, outbox, session, last, requests>>

(***************************************************************************)
(* Bounds and input domains.                                               *)
(***************************************************************************)
MaxRecords == 2

Usernames == {"alice", "bob"}
Emails == {"a@x.com", "b@x.com"}
FirstNames == {"Alice"}
LastNames == {"A"}
Codes == 1..MaxRecords
\* a code no row was ever given
UnknownCode == 0

\* settings.ADMINS: (name, address) pairs; settings.PORTAL_TITLE, SERVER_EMAIL
ADMINS == << <<"Admin", "admin@x.org">> >>
PORTAL_TITLE == "Portal"
SERVER_EMAIL == "portal@x.org"
GATEWAY_ID == "gw"

\* models.VERIFY_EMAIL_TEMPLATE, models.NEW_USER_EMAIL_TEMPLATE
VERIFY_EMAIL_TEMPLATE == "verify-email"
NEW_USER_EMAIL_TEMPLATE == "new-user-email"

(***************************************************************************)
(* Responses, calls and messages.                                          *)
(***************************************************************************)
\* redirect(reverse(name)) after messages.<level>(request, msg)
Redirect(to, level, msg) ==
    [kind |-> "redirect", to |-> to, level |-> level, msg |-> msg, data |-> <<>>]

\* render(request, template, {... 'form': form}) ; err is the form's non-field error
Render(template, err) ==
    [kind |-> "render", to |-> template, level |-> "form", msg |-> err, data |-> <<>>]

\* an exception that leaves the handler
Escapes(exc) ==
    [kind |-> "exception", to |-> "-", level |-> "-", msg |-> exc, data |-> <<>>]

\* one collaborator call: what was called, on what, and what came back
Call(op, arg, ret) == [op |-> op, arg |-> arg, ret |-> ret]

\* "{} <{}>".format(name, address): an address with its display name
Address(display, addr) == [display |-> display, addr |-> addr]

Outcome(recs, accounts, box, calls, response) ==
    [records |-> recs, iam |-> accounts, outbox |-> box,
     calls |-> calls, response |-> response]


(***************************************************************************)
(* The IAM admin client (iam_admin_client.py): accounts by username.       *)
(***************************************************************************)
NoAccount ==
    [exists |-> FALSE, enabled |-> FALSE, emails |-> <<>>,
     firstName |-> "", lastName |-> ""]

\* register_user(username, email, first_name, last_name, password) when it
\* returns True: the account now exists, disabled
register_user(accounts, username, email, first_name, last_name) ==
    [accounts EXCEPT ![username] =
        [exists |-> TRUE, enabled |-> FALSE, emails |-> <<email>>,
         firstName |-> first_name, lastName |-> last_name]]

is_user_exist(accounts, username) == accounts[username].exists

is_user_enabled(accounts, username) == accounts[username].enabled

enable_user(accounts, username) ==
    [accounts EXCEPT ![username].enabled = TRUE]

get_user(accounts, username) == accounts[username]

(***************************************************************************)
(* The EmailVerification table (models.EmailVerification).                 *)
(***************************************************************************)
UsedCodes(recs) == {recs[k].verification_code : k \in DOMAIN recs}

\* a slip: the token is not checked against the table
FreshCodes_any(recs) == Codes

\* verification_code's default: a fresh unique token.  The handlers only
\* compare codes for equality, so the least unused code stands for every
\* token the table does not hold yet.
FreshCodes(recs) ==
    {c \in Codes \ UsedCodes(recs) : \A d \in Codes \ UsedCodes(recs) : c <= d}

\* a slip: the new row takes the place of the username's earlier rows
NewEmailVerification_replacing(recs, username, code) ==
    Append(SelectSeq(recs, LAMBDA row : row.username # username),
           [username |-> username, verification_code |-> code,
            verified |-> FALSE])

\* models.EmailVerification(username=username); email_verification.save()
NewEmailVerification(recs, username, code) ==
    Append(recs, [username |-> username, verification_code |-> code,
                  verified |-> FALSE])

\* models.EmailVerification.objects.get(verification_code=code): the rows matching
get_by_code(recs, code) ==
    {k \in DOMAIN recs : recs[k].verification_code = code}

\* a slip: the flag is flipped instead of set
save_verified_flipped(recs, k) == [recs EXCEPT ![k].verified = ~@]

\* email_verification.verified = True; email_verification.save()
save_verified(recs, k) == [recs EXCEPT ![k].verified = TRUE]

(***************************************************************************)
(* _create_and_send_email_verification_link: a new EmailVerification row   *)
(* with a fresh code, then the "verify-email" message to the user.  fail   *)
(* names the call that raises ("none": no call raises).                    *)
(***************************************************************************)
\* request.build_absolute_uri(reverse('django_airavata_auth:verify_email', code))
verification_uri(code) == <<"verify_email", code>>

\* a slip: the message goes to the portal's own address
VerifyEmailMessage_to_server(username, email, first_name, last_name, code) ==
    [template |-> VERIFY_EMAIL_TEMPLATE,
     from_email |-> Address(<<PORTAL_TITLE>>, SERVER_EMAIL),
     to |-> <<Address(<<first_name, last_name>>, SERVER_EMAIL)>>,
     context |-> [username |-> username, email |-> email,
                  first_name |-> first_name, last_name |-> last_name,
                  portal_title |-> PORTAL_TITLE,
                  url |-> verification_uri(code)]]

\* the EmailMessage built at lines 302-316
VerifyEmailMessage(username, email, first_name, last_name, code) ==
    [template |-> VERIFY_EMAIL_TEMPLATE,
     from_email |-> Address(<<PORTAL_TITLE>>, SERVER_EMAIL),
     to |-> <<Address(<<first_name, last_name>>, email)>>,
     context |-> [username |-> username, email |-> email,
                  first_name |-> first_name, last_name |-> last_name,
                  portal_title |-> PORTAL_TITLE,
                  url |-> verification_uri(code)]]

\* msg.send()
send(box, msg) == box (+) SetToBag({msg})

LinkFailPoints == {"none", "save", "template", "send"}

create_and_send_email_verification_link(recs, box, username, email, first_name, last_name, code, fail) ==
    LET saved == NewEmailVerification(recs, username, code)
        msg == VerifyEmailMessage(username, email, first_name, last_name, code)
        cSave == Call("EmailVerification.save", username, "ok")
        cTmpl == Call("EmailTemplate.get", VERIFY_EMAIL_TEMPLATE, "ok")
        cSend == Call("send", email, "ok")
    IN  IF fail = "save"
        THEN [records |-> recs, outbox |-> box, raised |-> TRUE,
              calls |-> <<[cSave EXCEPT !.ret = "raise"]>>]
        ELSE IF fail = "template"
        THEN [records |-> saved, outbox |-> box, raised |-> TRUE,
              calls |-> <<cSave, [cTmpl EXCEPT !.ret = "raise"]>>]
        ELSE IF fail = "send"
        THEN [records |-> saved, outbox |-> box, raised |-> TRUE,
              calls |-> <<cSave, cTmpl, [cSend EXCEPT !.ret = "raise"]>>]
        ELSE [records |-> saved, outbox |-> send(box, msg), raised |-> FALSE,
              calls |-> <<cSave, cTmpl, cSend>>]

(***************************************************************************)
(* create_account(request).  The password goes to register_user and        *)
(* nowhere else, so it is no input here.  method and valid are the         *)
(* request's method and form.is_valid(); reg is what register_user does    *)
(* ("True", "False" or "raise"); fail is the failing call of the link      *)
(* step; hasMessage tells whether the exception raised has a .message      *)
(* attribute, which the except clause reads.                               *)
(***************************************************************************)
MSG_ACCOUNT_PROCESSED == "Account request processed successfully"
ERR_REGISTER_FAILED == "Failed to register user with IAM service"
ERR_EXCEPTION_MESSAGE == "e.message"
CREATE_ACCOUNT_TEMPLATE == "create_account.html"

\* except Exception as e: ... form.add_error(None, ValidationError(e.message))
CreateAccountExcept(hasMessage) ==
    IF hasMessage
    THEN Render(CREATE_ACCOUNT_TEMPLATE, ERR_EXCEPTION_MESSAGE)
    ELSE Escapes("AttributeError")

\* a slip: register_user's result is not looked at
RegisterSucceeded_unchecked(reg) == TRUE

\* if not success (line 149)
RegisterSucceeded(reg) == reg = "True"

create_account(method, valid, username, email, first_name, last_name, code, reg, fail, hasMessage) ==
    LET cReg == Call("register_user", username, reg)
    IN  IF method # "POST" \/ ~valid
        THEN Outcome(records, iam, outbox, <<>>,
                     Render(CREATE_ACCOUNT_TEMPLATE, "-"))
        ELSE IF reg = "raise"
        THEN Outcome(records, iam, outbox, <<cReg>>,
                     CreateAccountExcept(hasMessage))
        ELSE IF ~RegisterSucceeded(reg)
        THEN Outcome(records, iam, outbox, <<cReg>>,
                     Render(CREATE_ACCOUNT_TEMPLATE, ERR_REGISTER_FAILED))
        ELSE LET registered == register_user(iam, username, email,
                                             first_name, last_name)
                 link == create_and_send_email_verification_link(
                             records, outbox, username, email,
                             first_name, last_name, code, fail)
             IN  Outcome(link.records, registered, link.outbox,
                         <<cReg>> \o link.calls,
                         IF link.raised
                         THEN CreateAccountExcept(hasMessage)
                         ELSE Redirect("create_account", "success",
                                       MSG_ACCOUNT_PROCESSED))

(***************************************************************************)
(* verify_email(request, code).  fail names the collaborator call that     *)
(* raises in this request ("none": no call raises); a fail point the       *)
(* request does not reach has no effect.                                   *)
(***************************************************************************)
MSG_ALREADY_CREATED == "Your account has already been successfully created"
MSG_CREATED == "Your account has been successfully created"
ERR_VERIFY_RESEND == "Email verification failed. Please enter your username"
ERR_VERIFY_RETRY == "Email verification failed. Please try again later"

\* a slip: the notification goes to the new user, not to the administrators
NewUserMessage_to_user(username, user_profile) ==
    [template |-> NEW_USER_EMAIL_TEMPLATE,
     from_email |-> Address(<<PORTAL_TITLE>>, SERVER_EMAIL),
     to |-> <<Address(<<>>, user_profile.emails[1])>>,
     context |-> [username |-> username, email |-> user_profile.emails[1],
                  first_name |-> user_profile.firstName,
                  last_name |-> user_profile.lastName,
                  portal_title |-> PORTAL_TITLE,
                  gateway_id |-> GATEWAY_ID, http_host |-> "host"]]

\* the EmailMessage built at lines 203-220
NewUserMessage(username, user_profile) ==
    [template |-> NEW_USER_EMAIL_TEMPLATE,
     from_email |-> Address(<<PORTAL_TITLE>>, SERVER_EMAIL),
     to |-> [a \in DOMAIN ADMINS |-> Address(<<>>, ADMINS[a][2])],
     context |-> [username |-> username, email |-> user_profile.emails[1],
                  first_name |-> user_profile.firstName,
                  last_name |-> user_profile.lastName,
                  portal_title |-> PORTAL_TITLE,
                  gateway_id |-> GATEWAY_ID, http_host |-> "host"]]

\* objects.get on line 178 either finds the row or raises DoesNotExist; every
\* later call of the try block can raise.  "template_missing" is
\* EmailTemplate.DoesNotExist, a subclass of ObjectDoesNotExist.
VerifyFailPoints == {"none", "save", "is_user_enabled", "enable_user", "get_user", "template_missing", "template", "send"}

\* a slip: the lookup miss is answered like any other failure
VerifyDoesNotExist_as_failure ==
    Redirect("create_account", "error", ERR_VERIFY_RETRY)

\* except ObjectDoesNotExist (lines 227-236)
VerifyDoesNotExist == Redirect("resend_email_link", "error", ERR_VERIFY_RESEND)

\* except Exception (lines 237-243)
VerifyException == Redirect("create_account", "error", ERR_VERIFY_RETRY)

\* a slip: the administrators are told first, the account is enabled last
notify_and_enable(recs, accounts, box, username, calls, fail) ==
    LET cEnable == Call("enable_user", username, "ok")
        cGet == Call("get_user", username, "ok")
        cTmpl == Call("EmailTemplate.get", NEW_USER_EMAIL_TEMPLATE, "ok")
        cSend == Call("send", "ADMINS", "ok")
        told == send(box, NewUserMessage(username, get_user(accounts, username)))
    IN  IF fail \in {"get_user", "template_missing", "template", "send"}
        THEN Outcome(recs, accounts, box, calls \o <<[cGet EXCEPT !.ret = "raise"]>>,
                     VerifyException)
        ELSE IF fail = "enable_user"
        THEN Outcome(recs, accounts, told,
                     calls \o <<cGet, cTmpl, cSend,
                                [cEnable EXCEPT !.ret = "raise"]>>,
                     VerifyException)
        ELSE Outcome(recs, enable_user(accounts, username), told,
                     calls \o <<cGet, cTmpl, cSend, cEnable>>,
                     Redirect("login", "success", MSG_CREATED))

\* the else branch of lines 192-226: enable the account, then tell the admins
enable_and_notify(recs, accounts, box, username, calls, fail) ==
    LET cEnable == Call("enable_user", username, "ok")
        cGet == Call("get_user", username, "ok")
        cTmpl == Call("EmailTemplate.get", NEW_USER_EMAIL_TEMPLATE, "ok")
        cSend == Call("send", "ADMINS", "ok")
        enabled == enable_user(accounts, username)
        user_profile == get_user(enabled, username)
    IN  IF fail = "enable_user"
        THEN Outcome(recs, accounts, box,
                     calls \o <<[cEnable EXCEPT !.ret = "raise"]>>,
                     VerifyException)
        ELSE IF fail = "get_user"
        THEN Outcome(recs, enabled, box,
                     calls \o <<cEnable, [cGet EXCEPT !.ret = "raise"]>>,
                     VerifyException)
        ELSE IF fail = "template_missing"
        THEN Outcome(recs, enabled, box,
                     calls \o <<cEnable, cGet,
                                [cTmpl EXCEPT !.ret = "DoesNotExist"]>>,
                     VerifyDoesNotExist)
        ELSE IF fail = "template"
        THEN Outcome(recs, enabled, box,
                     calls \o <<cEnable, cGet, [cTmpl EXCEPT !.ret = "raise"]>>,
                     VerifyException)
        ELSE IF fail = "send"
        THEN Outcome(recs, enabled, box,
                     calls \o <<cEnable, cGet, cTmpl,
                                [cSend EXCEPT !.ret = "raise"]>>,
                     VerifyException)
        ELSE Outcome(recs, enabled,
                     send(box, NewUserMessage(username, user_profile)),
                     calls \o <<cEnable, cGet, cTmpl, cSend>>,
                     Redirect("login", "success", MSG_CREATED))

\* a slip: the enabled check is dropped, every visit enables and notifies
check_enabled_unchecked(recs, accounts, box, username, calls, fail) ==
    enable_and_notify(recs, accounts, box, username,
                      calls \o <<Call("is_user_enabled", username, "False")>>,
                      fail)

\* lines 182-226, once the row k is saved as verified
check_enabled(recs, accounts, box, username, calls, fail) ==
    LET isEnabled == is_user_enabled(accounts, username)
        cEnabled == Call("is_user_enabled", username,
                         IF isEnabled THEN "True" ELSE "False")
    IN  IF fail = "is_user_enabled"
        THEN Outcome(recs, accounts, box,
                     calls \o <<[cEnabled EXCEPT !.ret = "raise"]>>,
                     VerifyException)
        ELSE IF isEnabled
        THEN Outcome(recs, accounts, box, calls \o <<cEnabled>>,
                     Redirect("login", "success", MSG_ALREADY_CREATED))
        ELSE enable_and_notify(recs, accounts, box, username,
                               calls \o <<cEnabled>>, fail)

\* the fail points a request for code reaches in the current state
VerifyReached(code) ==
    LET matches == get_by_code(records, code)
    IN  IF Cardinality(matches) # 1 THEN {"none"}
        ELSE IF \E k \in matches : is_user_enabled(iam, records[k].username)
        THEN {"none", "save", "is_user_enabled"}
        ELSE VerifyFailPoints

\* a slip: the account is enabled before the row is saved as verified
verify_found_enable_first(k, code, fail) ==
    IF fail = "save"
    THEN Outcome(records, enable_user(iam, records[k].username), outbox,
                 <<Call("enable_user", records[k].username, "ok"),
                   Call("EmailVerification.save", ToString(code), "raise")>>,
                 VerifyException)
    ELSE check_enabled(save_verified(records, k), iam, outbox,
                       records[k].username,
                       <<Call("EmailVerification.get", ToString(code), "ok"),
                         Call("EmailVerification.save", ToString(code), "ok")>>,
                       fail)

\* lines 180-226: the row k was found; mark it verified, then enable
verify_found(k, code, fail) ==
    LET cGet == Call("EmailVerification.get", ToString(code), "ok")
        cSave == Call("EmailVerification.save", ToString(code), "ok")
    IN  IF fail = "save"
        THEN Outcome(records, iam, outbox,
                     <<cGet, [cSave EXCEPT !.ret = "raise"]>>, VerifyException)
        ELSE check_enabled(save_verified(records, k), iam, outbox,
                           records[k].username, <<cGet, cSave>>, fail)

verify_email(code, fail) ==
    LET matches == get_by_code(records, code)
        cGet == Call("EmailVerification.get", ToString(code), "ok")
    IN  IF matches = {}
        THEN Outcome(records, iam, outbox,
                     <<[cGet EXCEPT !.ret = "DoesNotExist"]>>,
                     VerifyDoesNotExist)
        ELSE IF Cardinality(matches) > 1
        THEN Outcome(records, iam, outbox,
                     <<[cGet EXCEPT !.ret = "MultipleObjectsReturned"]>>,
                     VerifyException)
        ELSE verify_found(CHOOSE j \in matches : TRUE, code, fail)

(***************************************************************************)
(* resend_email_link(request).  fail names the collaborator call that      *)
(* raises in this request.                                                 *)
(***************************************************************************)
MSG_LINK_SENT == "Email verification link sent successfully"
ERR_UNABLE_RESEND == "Unable to resend email verification link"
ERR_EXCEPTION_STR == "str(e)"
RESEND_TEMPLATE == "verify_email.html"

ResendFailPoints == {"none", "is_user_exist", "get_user", "save", "template", "send"}

\* except Exception as e: ... form.add_error(None, ValidationError(str(e)))
ResendExcept == Render(RESEND_TEMPLATE, ERR_EXCEPTION_STR)

\* a slip: the row is saved before the existence check is acted on
resend_missing_saves_row(username, calls) ==
    Outcome(NewEmailVerification(records, username, UnknownCode), iam, outbox,
            calls, Redirect("resend_email_link", "error", ERR_UNABLE_RESEND))

\* the else branch of lines 267-272: the user does not exist
resend_missing(username, calls) ==
    Outcome(records, iam, outbox, calls,
            Redirect("resend_email_link", "error", ERR_UNABLE_RESEND))

resend_email_link(method, valid, username, code, fail) ==
    LET exists == is_user_exist(iam, username)
        cExist == Call("is_user_exist", username,
                       IF exists THEN "True" ELSE "False")
        cGet == Call("get_user", username, "ok")
        user_profile == get_user(iam, username)
    IN  IF method # "POST" \/ ~valid
        THEN Outcome(records, iam, outbox, <<>>, Render(RESEND_TEMPLATE, "-"))
        ELSE IF fail = "is_user_exist"
        THEN Outcome(records, iam, outbox,
                     <<[cExist EXCEPT !.ret = "raise"]>>, ResendExcept)
        ELSE IF ~exists
        THEN resend_missing(username, <<cExist>>)
        ELSE IF fail = "get_user"
        THEN Outcome(records, iam, outbox,
                     <<cExist, [cGet EXCEPT !.ret = "raise"]>>, ResendExcept)
        ELSE LET link == create_and_send_email_verification_link(
                             records, outbox, username,
                             user_profile.emails[1], user_profile.firstName,
                             user_profile.lastName, code, fail)
             IN  Outcome(link.records, iam, link.outbox,
                         <<cExist, cGet>> \o link.calls,
                         IF link.raised
                         THEN ResendExcept
                         ELSE Redirect("resend_email_link", "success",
                                       MSG_LINK_SENT))

(***************************************************************************)
(* Login: redirect_login, handle_login, callback, callback_error.          *)
(***************************************************************************)
\* settings.AUTHENTICATION_OPTIONS['external']
ExternalOptions ==
    << [idp_alias |-> "cilogon", name |-> "CILogon"],
       [idp_alias |-> "iucas", name |-> "IU CAS"] >>

IdpAliases == {"cilogon", "iucas", "evil idp"}
Nexts == {"None", "/a?b=c"}
OAuthStates == {"s1", "s2"}

KEYCLOAK_CLIENT_ID == "pga"
KEYCLOAK_AUTHORIZE_URL == "https://iam/auth"
LOGIN_REDIRECT_URL == "/workspace"

ERR_LOGIN_FAILED == "Login failed. Please try again."
ERR_LOGIN_FAILED_ERR == "Login failed: {}. Please try again."
ERR_CALLBACK == "Failed to process OAuth2 callback"

\* urllib.parse.quote (safe='/'): percent-encodes ' ', '?' and '='
quote(str) ==
    IF str = "/a?b=c" THEN "/a%3Fb%3Dc"
    ELSE IF str = "evil idp" THEN "evil%20idp"
    ELSE str

\* a slip: the alias is not checked
validate_idp_alias_unchecked(idp_alias) == TRUE

\* _validate_idp_alias: TRUE when it returns, FALSE when it raises
validate_idp_alias(idp_alias) ==
    LET valid_idp_aliases ==
            {ExternalOptions[k].idp_alias : k \in DOMAIN ExternalOptions}
    IN  idp_alias \in valid_idp_aliases

LoginOutcome(sess, calls, response) ==
    [records |-> records, iam |-> iam, outbox |-> outbox, session |-> sess,
     calls |-> calls, response |-> response]

\* a slip: the user is not put into the session
login_not_stored(sess, user) == sess

\* django.contrib.auth.login: a session of another user is flushed first
login(sess, user) ==
    IF sess.user # "None" /\ sess.user # user
    THEN [user |-> user, OAUTH2_STATE |-> "None", OAUTH2_REDIRECT_URI |-> <<>>]
    ELSE [sess EXCEPT !.user = user]

\* a slip: the next target is left out of the callback URI
callback_redirect_uri_without_next(idp_alias, next) ==
    <<"callback", "idp_alias=" , quote(idp_alias)>>

\* lines 46-50: the callback URI with idp_alias and, when given, next
callback_redirect_uri(idp_alias, next) ==
    <<"callback", "idp_alias=" , quote(idp_alias)>>
        \o (IF next # "None" THEN <<"next=", quote(next)>> ELSE <<>>)

redirect_login(idp_alias, next, state) ==
    IF ~validate_idp_alias(idp_alias)
    THEN LoginOutcome(session, <<>>, Escapes("idp_alias is not valid"))
    ELSE LET redirect_uri == callback_redirect_uri(idp_alias, next)
             authorization_url ==
                 <<KEYCLOAK_AUTHORIZE_URL, KEYCLOAK_CLIENT_ID, "openid",
                   redirect_uri, state, "kc_idp_hint=", quote(idp_alias)>>
         IN  LoginOutcome(
                 [session EXCEPT !.OAUTH2_STATE = state,
                                 !.OAUTH2_REDIRECT_URI = redirect_uri],
                 <<Call("authorization_url", idp_alias, state)>>,
                 [kind |-> "redirect", to |-> "authorize", level |-> "-",
                  msg |-> "-", data |-> authorization_url])

\* auth is what authenticate() does: "user", "None" or "raise"
handle_login(username, login_type, next, auth, loginRaises) ==
    LET template == IF login_type = "password"
                    THEN "login_username_password.html" ELSE "login.html"
        cAuth == Call("authenticate", username, auth)
        cLogin == Call("login", username, "ok")
    IN  IF auth = "raise"
        THEN LoginOutcome(session, <<cAuth>>, Escapes("authenticate"))
        ELSE IF auth = "None"
        THEN LoginOutcome(session, <<cAuth>>,
                 [Render(template, "-") EXCEPT !.level = "error",
                                               !.msg = ERR_LOGIN_FAILED])
        ELSE IF loginRaises
        THEN LoginOutcome(session, <<cAuth, [cLogin EXCEPT !.ret = "raise"]>>,
                 [Render(template, "-") EXCEPT !.level = "error",
                                               !.msg = ERR_LOGIN_FAILED_ERR])
        ELSE LoginOutcome(login(session, username), <<cAuth, cLogin>>,
                 Redirect(IF next # "None" THEN next ELSE LOGIN_REDIRECT_URL,
                          "-", "-"))

\* idp_alias is request.GET.get('idp_alias'): "None" when the query has none.
\* Line 107 passes what authenticate() returned to login() unchecked, and
\* django.contrib.auth.login(request, None) logs in request.user: for an
\* anonymous session it raises (AnonymousUser has no _meta), for a session
\* that holds a user it logs that user in again, or raises when the backend
\* cannot be told (loginRaises).
callback(idp_alias, next, username, auth, loginRaises) ==
    LET cAuth == Call("authenticate", "request", auth)
        user == IF auth = "user" THEN username ELSE session.user
        cLogin == Call("login", IF auth = "user" THEN username ELSE "None", "ok")
        error == [Redirect("callback-error", "error", ERR_CALLBACK)
                     EXCEPT !.data = <<idp_alias>>]
    IN  IF auth = "raise"
        THEN LoginOutcome(session, <<cAuth>>, error)
        ELSE IF user = "None" \/ loginRaises
        THEN LoginOutcome(session, <<cAuth, [cLogin EXCEPT !.ret = "raise"]>>,
                          error)
        ELSE LoginOutcome(login(session, user), <<cAuth, cLogin>>,
                 Redirect(IF next # "None" THEN next ELSE LOGIN_REDIRECT_URL,
                          "-", "-"))

callback_error(idp_alias) ==
    IF ~validate_idp_alias(idp_alias)
    THEN LoginOutcome(session, <<>>, Escapes("idp_alias is not valid"))
    ELSE LET options == SelectSeq(ExternalOptions,
                                  LAMBDA ext : ext.idp_alias = idp_alias)
         IN  LoginOutcome(session, <<>>,
                 [Render("callback-error.html", "-") EXCEPT !.data = options])

(***************************************************************************)
(* The state machine: one action per request.                              *)
(***************************************************************************)
Methods == {"GET", "POST"}
AuthResults == {"user", "None", "raise"}

NoSession ==
    [user |-> "None", OAUTH2_STATE |-> "None", OAUTH2_REDIRECT_URI |-> <<>>]

\* the workers that serve verify_email requests side by side
Requests == {"r1", "r2"}

\* a worker that has not received its request yet
Idle ==
    [pc |-> "idle", code |-> UnknownCode, row |-> 0, enable_called |-> FALSE,
     notified |-> FALSE]

Init ==
    /\ records = <<>>
    /\ iam = [u \in Usernames |-> NoAccount]
    /\ outbox = EmptyBag
    /\ session = NoSession
    /\ last = [handler |-> "none", response |-> Render("-", "-")]
    /\ requests = [r \in Requests |-> Idle]

\* the request is answered: its effects and its trace become the state
Respond(handler, out) ==
    /\ Len(out.records) <= MaxRecords
    /\ records' = out.records
    /\ iam' = out.iam
    /\ outbox' = out.outbox
    /\ session' = IF "session" \in DOMAIN out THEN out.session ELSE session
    /\ last' = [handler |-> handler, response |-> out.response]
    /\ requests' = requests

\* the address a user submits: their own.  The handlers pass the address on
\* unread, so the requests of the state machine bring one address per user;
\* the properties of one request range over every address of Emails.
SubmittedEmails(username) ==
    IF username = "alice" THEN {"a@x.com"} ELSE {"b@x.com"}

\* register_user returns True only for a username IAM does not hold yet
RegisterPossible(username, reg) == reg = "True" => ~is_user_exist(iam, username)

\* GET, or a POST whose form is not valid: no form data reaches the handler's body
CreateAccountForm ==
    \E method \in Methods, valid \in BOOLEAN :
        /\ valid <=> method = "GET"
        /\ Respond("create_account",
                   create_account(method, valid, "alice", "a@x.com", "Alice",
                                  "A", UnknownCode, "False", "none", FALSE))

\* a valid POST on which register_user returns False or raises
CreateAccountRefused ==
    \E username \in Usernames : \E email \in SubmittedEmails(username),
       first_name \in FirstNames, last_name \in LastNames,
       reg \in {"False", "raise"},
       hasMessage \in BOOLEAN :
        /\ reg = "False" => hasMessage
        /\ Respond("create_account",
                   create_account("POST", TRUE, username, email, first_name,
                                  last_name, UnknownCode, reg, "none", hasMessage))

\* a valid POST on which register_user returns True
CreateAccountRegistered ==
    \E username \in Usernames : \E email \in SubmittedEmails(username),
       first_name \in FirstNames, last_name \in LastNames,
       code \in FreshCodes(records), fail \in LinkFailPoints,
       hasMessage \in BOOLEAN :
        /\ RegisterPossible(username, "True")
        /\ fail = "none" => hasMessage
        /\ Respond("create_account",
                   create_account("POST", TRUE, username, email, first_name,
                                  last_name, code, "True", fail, hasMessage))

CreateAccount ==
    \/ CreateAccountForm
    \/ CreateAccountRefused
    \/ CreateAccountRegistered

\* fail ranges over the calls this request reaches
VerifyEmail ==
    \E code \in Codes \cup {UnknownCode}, fail \in VerifyFailPoints :
        /\ fail \in VerifyReached(code)
        /\ Respond("verify_email", verify_email(code, fail))

ResendEmailLinkForm ==
    \E method \in Methods, valid \in BOOLEAN :
        /\ valid <=> method = "GET"
        /\ Respond("resend_email_link",
                   resend_email_link(method, valid, "alice", UnknownCode, "none"))

\* a valid POST that ends before the link step: is_user_exist raises or
\* returns False, or get_user raises
ResendEmailLinkNoLink ==
    \E username \in Usernames, fail \in {"none", "is_user_exist", "get_user"} :
        /\ fail = "none" => ~is_user_exist(iam, username)
        /\ fail = "get_user" => is_user_exist(iam, username)
        /\ Respond("resend_email_link",
                   resend_email_link("POST", TRUE, username, UnknownCode, fail))

\* a valid POST that reaches the link step
ResendEmailLinkLink ==
    \E username \in Usernames, code \in FreshCodes(records),
       fail \in LinkFailPoints :
        /\ is_user_exist(iam, username)
        /\ Respond("resend_email_link",
                   resend_email_link("POST", TRUE, username, code, fail))

ResendEmailLink ==
    \/ ResendEmailLinkForm
    \/ ResendEmailLinkNoLink
    \/ ResendEmailLinkLink

RedirectLogin ==
    \E idp_alias \in IdpAliases, next \in Nexts, state \in OAuthStates :
        Respond("redirect_login",
                redirect_login(idp_alias, next, state))

HandleLogin ==
    \E username \in Usernames, login_type \in {"None", "password"},
       next \in Nexts, auth \in AuthResults, loginRaises \in BOOLEAN :
        Respond("handle_login",
                handle_login(username, login_type, next, auth, loginRaises))

Callback ==
    \E idp_alias \in IdpAliases \cup {"None"}, next \in Nexts,
       username \in Usernames, auth \in AuthResults, loginRaises \in BOOLEAN :
        Respond("callback",
                callback(idp_alias, next, username, auth, loginRaises))

CallbackError ==
    \E idp_alias \in IdpAliases \cup {"None"} :
        Respond("callback_error",
                callback_error(idp_alias))

(***************************************************************************)
(* The account handlers read and write the EmailVerification table, the    *)
(* IAM accounts and the mail sent; the login handlers read and write the   *)
(* session alone.  The two groups share no state, so each has its own      *)
(* specification: Spec runs the account handlers, LoginSpec the login      *)
(* handlers.                                                               *)
(***************************************************************************)
Next ==
    \/ CreateAccount
    \/ VerifyEmail
    \/ ResendEmailLink

Spec == Init /\ [][Next]_vars

LoginNext ==
    \/ RedirectLogin
    \/ HandleLogin
    \/ Callback
    \/ CallbackError

LoginSpec == Init /\ [][LoginNext]_vars

(***************************************************************************)
(* verify_email line by line.  RaceSpec serves the requests of Requests    *)
(* side by side: each step below is one statement of lines 178-226 run by  *)
(* one request, and the steps of different requests interleave freely, as  *)
(* the handler takes no lock and opens no transaction.  A request keeps    *)
(* its email_verification object (row) from line 178 on.                   *)
(***************************************************************************)
\* the request r ends with response
Answer(r, response) ==
    /\ requests' = [requests EXCEPT ![r].pc = "done"]
    /\ last' = [handler |-> "verify_email", response |-> response]

\* the request r moves on to the statement at pc
Goto(r, pc) ==
    /\ requests' = [requests EXCEPT ![r].pc = pc]
    /\ last' = last

RequestUser(r) == records[requests[r].row].username

\* line 178: objects.get(verification_code=code)
RaceGet(r) ==
    /\ requests[r].pc = "idle"
    /\ \E code \in Codes \cup {UnknownCode} :
         LET matches == get_by_code(records, code)
         IN  IF matches = {}
             THEN /\ requests' = [requests EXCEPT ![r].pc = "done",
                                                  ![r].code = code]
                  /\ last' = [handler |-> "verify_email",
                              response |-> VerifyDoesNotExist]
             ELSE IF Cardinality(matches) > 1
             THEN /\ requests' = [requests EXCEPT ![r].pc = "done",
                                                  ![r].code = code]
                  /\ last' = [handler |-> "verify_email",
                              response |-> VerifyException]
             ELSE /\ requests' = [requests EXCEPT
                                     ![r].pc = "save", ![r].code = code,
                                     ![r].row = CHOOSE k \in matches : TRUE]
                  /\ last' = last
    /\ UNCHANGED <<records, iam, outbox, session>>

\* lines 180-181: verified = True; save()
RaceSave(r) ==
    /\ requests[r].pc = "save"
    /\ \E raises \in BOOLEAN :
         IF raises
         THEN Answer(r, VerifyException) /\ records' = records
         ELSE /\ Goto(r, "check")
              /\ records' = save_verified(records, requests[r].row)
    /\ UNCHANGED <<iam, outbox, session>>

\* line 185: if iam_admin_client.is_user_enabled(username)
RaceCheck(r) ==
    /\ requests[r].pc = "check"
    /\ \E raises \in BOOLEAN :
         IF raises
         THEN Answer(r, VerifyException)
         ELSE IF is_user_enabled(iam, RequestUser(r))
         THEN Answer(r, Redirect("login", "success", MSG_ALREADY_CREATED))
         ELSE Goto(r, "enable")
    /\ UNCHANGED <<records, iam, outbox, session>>

\* a slip: the enable call sits behind a second look at the account
race_enable_user_guarded(r, raises) ==
    IF is_user_enabled(iam, RequestUser(r))
    THEN /\ Answer(r, Redirect("login", "success", MSG_ALREADY_CREATED))
         /\ iam' = iam
    ELSE IF raises
    THEN Answer(r, VerifyException) /\ iam' = iam
    ELSE /\ requests' = [requests EXCEPT ![r].pc = "get_user",
                                         ![r].enable_called = TRUE]
         /\ last' = last
         /\ iam' = enable_user(iam, RequestUser(r))

\* line 195: iam_admin_client.enable_user(username), reached from the else of
\* line 192 with no further look at the account
race_enable_user(r, raises) ==
    IF raises
    THEN Answer(r, VerifyException) /\ iam' = iam
    ELSE /\ requests' = [requests EXCEPT ![r].pc = "get_user",
                                         ![r].enable_called = TRUE]
         /\ last' = last
         /\ iam' = enable_user(iam, RequestUser(r))

RaceEnable(r) ==
    /\ requests[r].pc = "enable"
    /\ \E raises \in BOOLEAN : race_enable_user(r, raises)
    /\ UNCHANGED <<records, outbox, session>>

\* line 196: user_profile = iam_admin_client.get_user(username)
RaceGetUser(r) ==
    /\ requests[r].pc = "get_user"
    /\ \E raises \in BOOLEAN :
         IF raises THEN Answer(r, VerifyException) ELSE Goto(r, "notify")
    /\ UNCHANGED <<records, iam, outbox, session>>

\* lines 197-226: the template lookup, the message and msg.send()
RaceNotify(r) ==
    /\ requests[r].pc = "notify"
    /\ \E fail \in {"none", "template_missing", "template", "send"} :
         IF fail = "template_missing"
         THEN Answer(r, VerifyDoesNotExist) /\ outbox' = outbox
         ELSE IF fail # "none"
         THEN Answer(r, VerifyException) /\ outbox' = outbox
         ELSE /\ requests' = [requests EXCEPT ![r].pc = "done",
                                              ![r].notified = TRUE]
              /\ last' = [handler |-> "verify_email",
                          response |-> Redirect("login", "success", MSG_CREATED)]
              /\ outbox' = send(outbox,
                                NewUserMessage(RequestUser(r),
                                               get_user(iam, RequestUser(r))))
    /\ UNCHANGED <<records, iam, session>>

RaceNext ==
    \/ CreateAccountRegistered
    \/ \E r \in Requests : RaceGet(r)
    \/ \E r \in Requests : RaceSave(r)
    \/ \E r \in Requests : RaceCheck(r)
    \/ \E r \in Requests : RaceEnable(r)
    \/ \E r \in Requests : RaceGetUser(r)
    \/ \E r \in Requests : RaceNotify(r)

RaceSpec == Init /\ [][RaceNext]_vars

(***************************************************************************)
(* Properties.                                                             *)
(***************************************************************************)
Rows == DOMAIN records
Sent(box) == BagCardinality(box)
\* the messages box2 holds beyond box, as a set
NewMail(box, box2) == {m \in BagToSet(box2) : CopiesIn(m, box2) > CopiesIn(m, box)}
\* the positions of the calls of op in calls
At(calls, op) == {k \in DOMAIN calls : calls[k].op = op}
ValidAliases == {ExternalOptions[k].idp_alias : k \in DOMAIN ExternalOptions}

\* the copies, in box, of the messages of the set S
RECURSIVE CopiesOf(_, _)
CopiesOf(box, S) ==
    IF S = {} THEN 0
    ELSE LET m == CHOOSE x \in S : TRUE
         IN  CopiesIn(m, box) + CopiesOf(box, S \ {m})

\* the new-user messages for the account of u that box holds
NotificationsIn(box, u) ==
    CopiesOf(box, {m \in BagToSet(box) : /\ m.template = NEW_USER_EMAIL_TEMPLATE
                                         /\ m.context.username = u})

\* handle_login and callback, for every input, leave the table, the accounts
\* and the mail sent as they are
LoginKeepsAccounts ==
    /\ \A username \in Usernames, login_type \in {"None", "password"},
          next \in Nexts, auth \in AuthResults, loginRaises \in BOOLEAN :
            LET out == handle_login(username, login_type, next, auth, loginRaises)
            IN  out.records = records /\ out.iam = iam /\ out.outbox = outbox
    /\ \A idp_alias \in IdpAliases \cup {"None"}, next \in Nexts,
          username \in Usernames, auth \in AuthResults, loginRaises \in BOOLEAN :
            LET out == callback(idp_alias, next, username, auth, loginRaises)
            IN  out.records = records /\ out.iam = iam /\ out.outbox = outbox

EnabledHasVerifiedRecord ==
    \A u \in Usernames :
        iam[u].enabled =>
            \E k \in Rows : records[k].username = u /\ records[k].verified

StaysEnabled == \A u \in Usernames : iam[u].enabled => iam'[u].enabled

\* C1: in every reachable state an enabled account has a row of its username
\* with verified = TRUE, whatever create_account, resend_email_link,
\* verify_email and login requests came before; and an account that is
\* enabled is enabled in every later state.
C1_EnabledOnlyAfterVerification ==
    /\ [](EnabledHasVerifiedRecord /\ LoginKeepsAccounts)
    /\ [][StaysEnabled]_vars

C1_Witness ==
    /\ last.handler = "verify_email"
    /\ \E u \in Usernames : iam[u].enabled
    /\ \E u \in Usernames : iam[u].exists /\ ~iam[u].enabled

\* C2: a verify_email request with a code whose account IAM holds as enabled
\* makes no enable_user call, sends nothing and leaves the accounts as they
\* are, whichever later call is set to fail.
C2_EnabledAccountNoSideEffects ==
    \A code \in Codes, fail \in VerifyFailPoints :
        \A k \in get_by_code(records, code) :
            iam[records[k].username].enabled =>
                LET out == verify_email(code, fail)
                IN  /\ At(out.calls, "enable_user") = {}
                    /\ At(out.calls, "send") = {}
                    /\ out.iam = iam
                    /\ out.outbox = outbox

C2_Witness ==
    /\ last.handler = "verify_email"
    /\ last.response = Redirect("login", "success", MSG_ALREADY_CREATED)
    /\ Sent(outbox) >= 1

\* C3: no two rows of the table hold the same verification_code, so a lookup
\* by code matches at most one row.
C3_CodesUnique ==
    /\ \A j \in Rows, k \in Rows :
           records[j].verification_code = records[k].verification_code => j = k
    /\ \A code \in Codes \cup {UnknownCode} :
           Cardinality(get_by_code(records, code)) <= 1

C3_Witness ==
    /\ Len(records) >= 2
    /\ last.handler = "resend_email_link"
    /\ last.response = Redirect("resend_email_link", "success", MSG_LINK_SENT)

RowsKept ==
    \A k \in Rows :
        /\ k \in DOMAIN records'
        /\ records'[k].username = records[k].username
        /\ records'[k].verification_code = records[k].verification_code
        /\ records[k].verified => records'[k].verified

NewRowsUnverified ==
    \A k \in DOMAIN records' \ Rows : ~records'[k].verified

\* a visit with the code of row k whose save does not raise leaves row k
\* verified and every other row as it was
VisitSetsVerified ==
    \A code \in Codes, fail \in VerifyFailPoints \ {"save"} :
        \A k \in get_by_code(records, code) :
            LET out == verify_email(code, fail)
            IN  /\ DOMAIN out.records = Rows
                /\ out.records[k].verified
                /\ \A j \in Rows \ {k} : out.records[j] = records[j]

\* C4: a row starts with verified = FALSE; a verify_email visit with its code
\* that saves the row leaves it verified = TRUE, the first visit and every
\* repeat visit; and no request resets the flag, changes the row's username
\* or code, or deletes the row.
C4_VerifiedIsMonotonic ==
    /\ [](VisitSetsVerified /\ LoginKeepsAccounts)
    /\ [][RowsKept /\ NewRowsUnverified]_vars

C4_Witness ==
    /\ last.handler = "verify_email"
    /\ last.response = Redirect("login", "success", MSG_ALREADY_CREATED)
    /\ \E k \in Rows : records[k].verified
    /\ \E k \in Rows : ~records[k].verified

\* C5: for an idp_alias that no configured external option has,
\* redirect_login does not redirect, builds no authorization request and
\* leaves the session as it is.
C5_UnknownAliasRejected ==
    \A idp_alias \in IdpAliases \ ValidAliases, next \in Nexts,
       state \in OAuthStates :
        LET out == redirect_login(idp_alias, next, state)
        IN  /\ out.response.kind = "exception"
            /\ out.response.data = <<>>
            /\ out.calls = <<>>
            /\ out.session = session

C5_Witness ==
    /\ last.handler = "redirect_login"
    /\ last.response.kind = "exception"
    /\ session.OAUTH2_STATE # "None"

\* C6: a resend_email_link POST for a username IAM reports as not existing
\* creates no row, sends no mail, does not fetch the profile and answers
\* with the error message.
C6_ResendUnknownUser ==
    \A username \in Usernames, code \in Codes,
       fail \in ResendFailPoints \ {"is_user_exist"} :
        ~iam[username].exists =>
            LET out == resend_email_link("POST", TRUE, username, code, fail)
            IN  /\ out.records = records
                /\ out.outbox = outbox
                /\ out.iam = iam
                /\ At(out.calls, "get_user") = {}
                /\ At(out.calls, "send") = {}
                /\ out.response = Redirect("resend_email_link", "error",
                                           ERR_UNABLE_RESEND)

C6_Witness ==
    /\ last.handler = "resend_email_link"
    /\ last.response = Redirect("resend_email_link", "error", ERR_UNABLE_RESEND)
    /\ Len(records) >= 1

\* C7: a verify_email request with a code no row holds changes no row, makes
\* no enable_user call, sends nothing and redirects to the resend-link page
\* with the error message.
C7_UnknownCode ==
    \A code \in Codes \cup {UnknownCode}, fail \in VerifyFailPoints :
        get_by_code(records, code) = {} =>
            LET out == verify_email(code, fail)
            IN  /\ out.records = records
                /\ out.iam = iam
                /\ out.outbox = outbox
                /\ At(out.calls, "enable_user") = {}
                /\ At(out.calls, "send") = {}
                /\ out.response = Redirect("resend_email_link", "error",
                                           ERR_VERIFY_RESEND)

C7_Witness ==
    /\ last.handler = "verify_email"
    /\ last.response = Redirect("resend_email_link", "error", ERR_VERIFY_RESEND)
    /\ Len(records) >= 1
    /\ \A u \in Usernames : ~iam[u].enabled

\* C8: a valid create_account POST on which register_user returns False
\* creates no row, sends no mail and renders the form with the one
\* registration-failed error.
C8_RegisterRefused ==
    \A username \in Usernames, email \in Emails, first_name \in FirstNames,
       last_name \in LastNames, code \in Codes, fail \in LinkFailPoints,
       hasMessage \in BOOLEAN :
        LET out == create_account("POST", TRUE, username, email, first_name,
                                  last_name, code, "False", fail, hasMessage)
        IN  /\ out.records = records
            /\ out.outbox = outbox
            /\ out.iam = iam
            /\ At(out.calls, "EmailVerification.save") = {}
            /\ At(out.calls, "send") = {}
            /\ out.response = Render(CREATE_ACCOUNT_TEMPLATE, ERR_REGISTER_FAILED)

C8_Witness ==
    /\ last.handler = "create_account"
    /\ last.response = Render(CREATE_ACCOUNT_TEMPLATE, ERR_REGISTER_FAILED)
    /\ Len(records) >= 1

\* C9: a valid create_account POST on which register_user returns True and
\* no later call raises adds exactly one row, with the submitted username and
\* verified = FALSE, sends exactly one verify-email message, addressed to the
\* submitted address, and leaves the account existing and disabled.
C9_RegisterCreatesOneRowOneMail ==
    \A username \in Usernames, email \in Emails, first_name \in FirstNames,
       last_name \in LastNames, code \in FreshCodes(records),
       hasMessage \in BOOLEAN :
        ~iam[username].exists =>
            LET out == create_account("POST", TRUE, username, email,
                                      first_name, last_name, code, "True",
                                      "none", hasMessage)
                n == Len(records) + 1
            IN  /\ Len(out.records) = n
                /\ \A k \in Rows : out.records[k] = records[k]
                /\ out.records[n].username = username
                /\ ~out.records[n].verified
                /\ Sent(out.outbox) = Sent(outbox) + 1
                /\ \A m \in NewMail(outbox, out.outbox) :
                       /\ m.template = VERIFY_EMAIL_TEMPLATE
                       /\ Len(m.to) = 1
                       /\ m.to[1].addr = email
                       /\ m.context.url =
                              verification_uri(out.records[n].verification_code)
                /\ out.iam[username].exists /\ ~out.iam[username].enabled
                /\ \A u \in Usernames \ {username} : out.iam[u] = iam[u]
                /\ out.response = Redirect("create_account", "success",
                                           MSG_ACCOUNT_PROCESSED)

C9_Witness ==
    /\ last.handler = "create_account"
    /\ last.response = Redirect("create_account", "success", MSG_ACCOUNT_PROCESSED)
    /\ Len(records) = 2
    /\ Sent(outbox) = 2

\* C10: a verify_email request with the code of a row whose account is not
\* enabled, in which no call raises, leaves the row verified, calls
\* enable_user exactly once, for the row's username, sends exactly one
\* message, addressed to the administrators, after the enable_user call, and
\* redirects to the login page with the success message.
C10_VerifyEnablesAndNotifies ==
    \A code \in Codes :
        \A k \in get_by_code(records, code) :
            ~iam[records[k].username].enabled =>
                LET out == verify_email(code, "none")
                    u == records[k].username
                IN  /\ out.records[k].verified
                    /\ Cardinality(At(out.calls, "enable_user")) = 1
                    /\ \A c \in At(out.calls, "enable_user") :
                           out.calls[c].arg = u
                    /\ out.iam[u].enabled
                    /\ \A v \in Usernames \ {u} : out.iam[v] = iam[v]
                    /\ Cardinality(At(out.calls, "send")) = 1
                    /\ Sent(out.outbox) = Sent(outbox) + 1
                    /\ \A m \in NewMail(outbox, out.outbox) :
                           /\ m.template = NEW_USER_EMAIL_TEMPLATE
                           /\ m.context.username = u
                           /\ Len(m.to) = Len(ADMINS)
                           /\ \A a \in DOMAIN ADMINS : m.to[a].addr = ADMINS[a][2]
                    /\ \A e \in At(out.calls, "enable_user"),
                          n \in At(out.calls, "send") : e < n
                    /\ out.response = Redirect("login", "success", MSG_CREATED)

C10_Witness ==
    /\ last.handler = "verify_email"
    /\ last.response = Redirect("login", "success", MSG_CREATED)
    /\ \E u \in Usernames : iam[u].enabled
    /\ Sent(outbox) >= 2

\* the calls of step 3 of a visit: the enabled check, the enable call, the
\* profile fetch and the administrator notification (template and send)
Step3FailPoints == {"is_user_enabled", "enable_user", "get_user", "template_missing", "template", "send"}

\* the administrators have been told of the account of u
AdminsNotified(box, u) == NotificationsIn(box, u) >= 1

\* a visit that fails in step 3 leaves the row verified and answers with the
\* redirect that carries the retry-later message
C11_FailureKeepsVerified ==
    \A code \in Codes, fail \in Step3FailPoints :
        \A k \in get_by_code(records, code) :
            fail \in VerifyReached(code) =>
                LET out == verify_email(code, fail)
                IN  /\ out.records[k].verified
                    /\ out.response = VerifyException

\* a visit with the code of a row an earlier visit saved as verified, in which
\* no call raises, ends with the account enabled and the administrators told
C11_RetryHeals ==
    \A code \in Codes :
        \A k \in get_by_code(records, code) :
            records[k].verified =>
                LET out == verify_email(code, "none")
                    u == records[k].username
                IN  /\ out.iam[u].enabled
                    /\ AdminsNotified(out.outbox, u)

\* C11: a verify_email visit for an existing code that fails at any call of
\* step 3 leaves the row verified and redirects with the retry-later message;
\* and a later visit with the same code in which no call raises ends with the
\* account enabled and the administrators notified for that account.
C11_SelfHealingOnRetry ==
    /\ C11_FailureKeepsVerified
    /\ C11_RetryHeals

\* the requests that have called enable_user for the account of u
EnableCallers(u) ==
    {r \in Requests : requests[r].enable_called /\ RequestUser(r) = u}

\* the requests that have sent the new-user message for the account of u
Notifiers(u) ==
    {r \in Requests : requests[r].notified /\ RequestUser(r) = u}

\* the copies of the new-user message for the account of u in the mail sent
Notifications(u) == NotificationsIn(outbox, u)

\* a request that saw the account as not enabled at line 185 makes, as its
\* next step, the enable_user call, whatever the account's state is by then:
\* it either enables the account or ends on the raise of that call
EnableFollowsCheck ==
    \A r \in Requests :
        (requests[r].pc = "enable" /\ requests'[r] # requests[r]) =>
            \/ /\ requests'[r].pc = "get_user"
               /\ requests'[r].enable_called
               /\ iam'[RequestUser(r)].enabled
            \/ /\ requests'[r].pc = "done"
               /\ ~requests'[r].enable_called
               /\ last'.response = VerifyException

\* every request that sent the message added its own copy
EachNotifierSends ==
    \A u \in Usernames : Notifications(u) = Cardinality(Notifiers(u))

\* C12: verify_email requests served side by side have no guard between the
\* enabled check and the enable call: a request that observed the account as
\* not enabled calls enable_user at its next step even when another request
\* has enabled the account since, and every request that reaches msg.send()
\* adds its own copy of the administrator notification.
C12_NoGuardBetweenCheckAndEnable ==
    /\ []EachNotifierSends
    /\ [][EnableFollowsCheck]_vars

\* two requests with one code have both called enable_user for the account,
\* and the administrators hold two notifications for it
C12_Witness ==
    \E u \in Usernames :
        /\ requests["r1"].code = requests["r2"].code
        /\ EnableCallers(u) = Requests
        /\ Notifiers(u) = Requests
        /\ Notifications(u) = 2

\* a visit with the code of a verified row whose account is not enabled, in
\* which no call raises, calls enable_user and sends the new-user message
ReplayBeforeEnabledRetries ==
    \A code \in Codes :
        \A k \in get_by_code(records, code) :
            (records[k].verified /\ ~iam[records[k].username].enabled) =>
                LET out == verify_email(code, "none")
                    u == records[k].username
                IN  /\ At(out.calls, "enable_user") # {}
                    /\ At(out.calls, "send") # {}
                    /\ out.iam[u].enabled
                    /\ NotificationsIn(out.outbox, u) =
                           NotificationsIn(outbox, u) + 1

\* a visit with the code of a row whose account is enabled sends nothing
ReplayAfterEnabledSendsNothing ==
    \A code \in Codes, fail \in VerifyFailPoints :
        \A k \in get_by_code(records, code) :
            iam[records[k].username].enabled =>
                verify_email(code, fail).outbox = outbox

\* of enabling the account of u and telling the administrators, one has
\* taken effect and the other has not
PartlyDone(u) == iam[u].enabled # (NotificationsIn(outbox, u) >= 1)

\* after a visit that got part of the way, some replay of the link leaves the
\* administrators with a second notification for the account
ReplayCanNotifyTwice ==
    \A code \in Codes :
        \A k \in get_by_code(records, code) :
            (records[k].verified /\ PartlyDone(records[k].username)) =>
                \E fail \in VerifyFailPoints :
                    NotificationsIn(verify_email(code, fail).outbox,
                                    records[k].username) >= 2

NotifiedAtMostOnce ==
    \A u \in Usernames :
        /\ NotificationsIn(outbox, u) <= 1
        /\ NotificationsIn(outbox, u) = 1 => iam[u].enabled

ResendAddsOneRow ==
    \A username \in Usernames, code \in FreshCodes(records) :
        iam[username].exists =>
            LET out == resend_email_link("POST", TRUE, username, code, "none")
                n == Len(records) + 1
            IN  /\ Len(out.records) = n
                /\ out.records[n].username = username
                /\ ~out.records[n].verified
                /\ out.records[n].verification_code \notin UsedCodes(records)
                /\ \A k \in Rows :
                       /\ out.records[k] = records[k]
                       /\ get_by_code(out.records,
                                      records[k].verification_code) = {k}

\* every code issued so far finds its row, and a visit with it in which no
\* call raises leaves the row verified and the account enabled
EveryIssuedCodeVerifies ==
    \A k \in Rows :
        LET code == records[k].verification_code
            out == verify_email(code, "none")
        IN  /\ get_by_code(records, code) = {k}
            /\ out.records[k].verified
            /\ out.iam[records[k].username].enabled
            /\ out.response.to = "login"

\* C14: a resend_email_link request for an existing username adds exactly
\* one row (verified = FALSE, fresh code) and leaves every earlier row
\* unchanged; no request deletes or re-codes a row, so a verify_email visit
\* with any code issued before still finds its row and enables the account,
\* and several codes of one username are valid side by side.
C14_ResendKeepsEarlierCodes ==
    /\ [](ResendAddsOneRow /\ EveryIssuedCodeVerifies)
    /\ [][RowsKept]_vars

\* after a resend for alice, the visit with her first code enabled her
\* account while her second code is still unused
C14_Witness ==
    /\ Len(records) = 2
    /\ records[1].username = records[2].username
    /\ records[1].verified /\ ~records[2].verified
    /\ iam[records[1].username].enabled
    /\ last.handler = "verify_email"
    /\ last.response = Redirect("login", "success", MSG_CREATED)

\* C15: when register_user has returned True and then the row's save, the
\* template lookup or the send raises, create_account catches the exception
\* and ends with the registration form showing a failure message, no
\* exception leaving the handler; nothing is rolled back, so the account
\* exists afterwards, disabled.
C15_LinkFailureShowsForm ==
    \A username \in Usernames, email \in Emails, first_name \in FirstNames,
       last_name \in LastNames, code \in FreshCodes(records),
       fail \in LinkFailPoints \ {"none"}, hasMessage \in BOOLEAN :
        ~iam[username].exists =>
            LET out == create_account("POST", TRUE, username, email,
                                      first_name, last_name, code, "True",
                                      fail, hasMessage)
            IN  /\ out.response.kind = "render"
                /\ out.response.to = CREATE_ACCOUNT_TEMPLATE
                /\ out.response.msg # "-"
                /\ out.iam[username].exists
                /\ ~out.iam[username].enabled

\* the request ended with a rendered page or a redirect
Answered(out) == out.response.kind \in {"render", "redirect"}

LoginHandlersAnswer ==
    /\ \A idp_alias \in IdpAliases \cup {"None"}, next \in Nexts,
          state \in OAuthStates :
            Answered(redirect_login(idp_alias, next, state))
    /\ \A username \in Usernames, login_type \in {"None", "password"},
          next \in Nexts, auth \in AuthResults, loginRaises \in BOOLEAN :
            Answered(handle_login(username, login_type, next, auth, loginRaises))
    /\ \A idp_alias \in IdpAliases \cup {"None"}, next \in Nexts,
          username \in Usernames, auth \in AuthResults, loginRaises \in BOOLEAN :
            Answered(callback(idp_alias, next, username, auth, loginRaises))
    /\ \A idp_alias \in IdpAliases \cup {"None"} :
            Answered(callback_error(idp_alias))

AccountHandlersAnswer ==
    /\ \A method \in Methods, valid \in BOOLEAN, username \in Usernames,
          email \in Emails, first_name \in FirstNames, last_name \in LastNames,
          code \in Codes, reg \in {"True", "False", "raise"},
          fail \in LinkFailPoints, hasMessage \in BOOLEAN :
            Answered(create_account(method, valid, username, email, first_name,
                                    last_name, code, reg, fail, hasMessage))
    /\ \A code \in Codes \cup {UnknownCode}, fail \in VerifyFailPoints :
            fail \in VerifyReached(code) => Answered(verify_email(code, fail))
    /\ \A method \in Methods, valid \in BOOLEAN, username \in Usernames,
          code \in Codes, fail \in ResendFailPoints :
            Answered(resend_email_link(method, valid, username, code, fail))

\* C16: every request to redirect_login, handle_login, callback,
\* callback_error, create_account, verify_email and resend_email_link, for
\* every input and collaborator outcome, a failing collaborator and an
\* unrecognized or missing idp_alias included, ends with a rendered page or
\* a redirect: no exception leaves a handler.
C16_EveryRequestAnswered ==
    /\ LoginHandlersAnswer
    /\ AccountHandlersAnswer

\* a callback on which authenticate raises or returns no user establishes no
\* session and redirects to the callback-error page of the request's idp_alias
FailedCallbackRedirectsToError ==
    \A idp_alias \in IdpAliases \cup {"None"}, next \in Nexts,
       username \in Usernames, auth \in {"None", "raise"},
       loginRaises \in BOOLEAN :
        LET out == callback(idp_alias, next, username, auth, loginRaises)
        IN  /\ out.session = session
            /\ At(out.calls, "login") \subseteq
                   {c \in DOMAIN out.calls : out.calls[c].ret = "raise"}
            /\ out.response.kind = "redirect"
            /\ out.response.to = "callback-error"
            /\ out.response.data = <<idp_alias>>

\* callback_error shows, for a configured alias, the configured entries of
\* that alias and no other, each as configured
ErrorOptionsOfOneProvider ==
    \A idp_alias \in ValidAliases :
        LET options == callback_error(idp_alias).response.data
        IN  /\ options # <<>>
            /\ \A k \in DOMAIN options :
                   /\ options[k].idp_alias = idp_alias
                   /\ \E j \in DOMAIN ExternalOptions :
                          options[k] = ExternalOptions[j]
            /\ \A j \in DOMAIN ExternalOptions :
                   ExternalOptions[j].idp_alias = idp_alias =>
                       \E k \in DOMAIN options : options[k] = ExternalOptions[j]

\* C17: when the OAuth2 callback fails (authenticate raises or returns no
\* user) no session is established and the response is the redirect to the
\* callback-error page of the idp_alias the request carried; callback_error
\* shows only the configured external entries of that alias, never another
\* provider's.
C17_FailedCallbackScopedError ==
    /\ FailedCallbackRedirectsToError
    /\ ErrorOptionsOfOneProvider

\* the state and the redirect_uri an authorization URL carries (line 51-54)
StateOf(authorization_url) == authorization_url[5]
RedirectUriOf(authorization_url) == authorization_url[4]

\* redirect_login for a configured alias redirects to the provider with the
\* session holding the state and the callback URI of that very request; the
\* URI carries the quoted idp_alias and, when next is given, the quoted next
RedirectStoresItsPair ==
    \A idp_alias \in ValidAliases, next \in Nexts, state \in OAuthStates :
        LET out == redirect_login(idp_alias, next, state)
            uri == out.session.OAUTH2_REDIRECT_URI
        IN  /\ out.response.kind = "redirect"
            /\ out.response.to = "authorize"
            /\ StateOf(out.response.data) = state
            /\ out.session.OAUTH2_STATE = state
            /\ RedirectUriOf(out.response.data) = uri
            /\ uri = <<"callback", "idp_alias=", quote(idp_alias)>>
                         \o (IF next # "None" THEN <<"next=", quote(next)>>
                             ELSE <<>>)
            /\ out.session.user = session.user

\* after a redirect_login that redirected, the session holds the pair of
\* that request, whatever pair it held before
StoredPairIsLatest ==
    (last.handler = "redirect_login" /\ last.response.kind = "redirect") =>
        /\ session.OAUTH2_STATE = StateOf(last.response.data)
        /\ session.OAUTH2_REDIRECT_URI = RedirectUriOf(last.response.data)

\* a redirect_login that redirected with a state other than the stored one
\* leaves the earlier state stored no longer
EarlierStateReplaced ==
    (/\ last'.handler = "redirect_login"
     /\ last'.response.kind = "redirect"
     /\ session.OAUTH2_STATE # StateOf(last'.response.data)) =>
        /\ session'.OAUTH2_STATE # session.OAUTH2_STATE
        /\ session'.OAUTH2_STATE = StateOf(last'.response.data)

\* C18: whenever redirect_login redirects to the provider for a configured
\* idp_alias, the session holds the state and the callback redirect URI of
\* exactly that authorization request, the URI carrying the idp_alias and,
\* when given, next; after several redirect_login requests the stored pair
\* is that of the most recent one, so the state of an earlier request with
\* another state is stored no longer.
C18_SessionHoldsLatestRequest ==
    /\ [](RedirectStoresItsPair /\ StoredPairIsLatest)
    /\ [][EarlierStateReplaced]_vars

\* a redirect_login with next, in a session that is logged in, answered with
\* the redirect to the provider
C18_Witness ==
    /\ last.handler = "redirect_login"
    /\ last.response.kind = "redirect"
    /\ session.OAUTH2_STATE = "s2"
    /\ session.OAUTH2_REDIRECT_URI =
           <<"callback", "idp_alias=", "iucas", "next=", "/a%3Fb%3Dc">>
    /\ session.user # "None"

\* handle_login answered with the redirect of line 82
LoggedIn(out) == out.response.kind = "redirect"

\* what a handle_login request does, by its outcome: on success the session
\* holds the user and the redirect goes to next, or to LOGIN_REDIRECT_URL
\* when none is posted; otherwise the session, the table, the accounts and
\* the mail are as before and the login form is shown with an error
HandleLoginOutcomes ==
    \A username \in Usernames, login_type \in {"None", "password"},
       next \in Nexts, auth \in {"user", "None"}, loginRaises \in BOOLEAN :
        LET out == handle_login(username, login_type, next, auth, loginRaises)
        IN  /\ LoggedIn(out) =>
                   /\ out.session.user = username
                   /\ out.response.to =
                          (IF next # "None" THEN next ELSE LOGIN_REDIRECT_URL)
            /\ ~LoggedIn(out) =>
                   /\ out.session = session
                   /\ out.response.kind = "render"
                   /\ out.response.to =
                          (IF login_type = "password"
                           THEN "login_username_password.html" ELSE "login.html")
                   /\ out.response.level = "error"
            /\ auth = "None" => out.response.msg = ERR_LOGIN_FAILED
            /\ out.records = records /\ out.iam = iam /\ out.outbox = outbox

FailedLoginKeepsSession ==
    (last'.handler = "handle_login" /\ last'.response.kind = "render") =>
        session' = session

C20_ResendOnlyBeforeEnabled ==
    \A username \in Usernames, code \in FreshCodes(records),
       fail \in ResendFailPoints :
        iam[username].enabled =>
            LET out == resend_email_link("POST", TRUE, username, code, fail)
            IN  /\ out.records = records
                /\ out.outbox = outbox
                /\ At(out.calls, "EmailVerification.save") = {}
                /\ At(out.calls, "send") = {}

====
